---- MODULE Spec2Model ----
(***************************************************************************)
(* Model of the two generators of the operator:                            *)
(*   - pkg/prometheus/promcfg.go: generateConfig,                          *)
(*     generateServiceMonitorConfig, generateAlertmanagerConfig;           *)
(*   - package alertmanager (src/unnamed/part_000): makeStatefulSet,       *)
(*     makeStatefulSetSpec.                                                *)
(* Go strings are TLA+ strings (fmt.Sprintf and + are \o, %d is ToString), *)
(* Go slices are sequences, Go maps are functions, Go structs are records. *)
(* A Go pointer that may be nil is a sequence of length 0 (nil) or 1.      *)
(***************************************************************************)
EXTENDS Integers, Sequences, FiniteSets, TLC

VARIABLES
    am,           \* *spec.Alertmanager handed to makeStatefulSet
    old,          \* *v1beta1.StatefulSet handed to makeStatefulSet (<<>> is nil)
    statefulset,  \* <<>> before the call, <<result>> after makeStatefulSet returned
    p,            \* *spec.Prometheus handed to generateConfig
    mons,         \* map[string]*spec.ServiceMonitor handed to generateConfig
    config,       \* <<>> before the first call, <<document>> of the latest generateConfig
    m,            \* *spec.ServiceMonitor handed to generateServiceMonitorConfig
    ep,           \* spec.Endpoint handed to generateServiceMonitorConfig
    i,            \* endpoint index handed to generateServiceMonitorConfig
    job           \* <<>> before the call, <<scrape job>> of generateServiceMonitorConfig

vars == <<am, old, statefulset, p, mons, config, m, ep, i, job>>

amVars == <<am, old, statefulset>>
cfgVars == <<p, mons, config>>
jobVars == <<m, ep, i, job>>

(***************************************************************************)
(* Bounds of the model.                                                    *)
(***************************************************************************)
MaxReplicas == 3     \* declared replicas range over -1..MaxReplicas
MaxMons == 2         \* monitors in the map handed to generateConfig
MaxEndpoints == 2    \* endpoints of one monitor
MaxLabels == 2       \* entries of Selector.MatchLabels
MaxExprs == 1        \* entries of Selector.MatchExpressions
MaxMatchNames == 2   \* entries of NamespaceSelector.MatchNames

(***************************************************************************)
(* String helpers (package strings and fmt).                               *)
(***************************************************************************)
HasPrefix(s, prefix) ==
    /\ Len(s) >= Len(prefix)
    /\ SubSeq(s, 1, Len(prefix)) = prefix

TrimPrefix(s, prefix) == SubSeq(s, Len(prefix) + 1, Len(s))

RECURSIVE Join(_, _)
Join(elems, sep) ==
    IF Len(elems) = 0 THEN ""
    ELSE IF Len(elems) = 1 THEN elems[1]
    ELSE elems[1] \o sep \o Join(Tail(elems), sep)

\* All orders in which the runtime may range over a map with key set S.
RECURSIVE Orders(_)
Orders(S) ==
    IF S = {} THEN {<<>>}
    ELSE UNION {{<<k>> \o rest : rest \in Orders(S \ {k})} : k \in S}

\* The contiguous windows of at most n elements of the sequence s.
Windows(s, n) ==
    LET all == {SubSeq(s, a, b) : a \in 1..Len(s), b \in 1..Len(s)}
    IN {w \in all \cup {<<>>} : Len(w) <= n}

(***************************************************************************)
(* makeStatefulSet and makeStatefulSetSpec (package alertmanager).         *)
(***************************************************************************)
defaultBaseImage == "quay.io/prometheus/alertmanager"
defaultVersion == "v0.5.1"

\* replicas := am.Spec.Replicas; if replicas < 1 { replicas = 1 }
\* (variant without the floor)
clampReplicasNoFloor(r) == r
clampReplicas(r) == IF r < 1 THEN 1 ELSE r

\* for i := int32(0); i < replicas; i++ { commands = append(commands, "-mesh.peer=...") }
meshPeers(ns, name, replicas) ==
    [k \in 1..replicas |->
        "-mesh.peer=" \o name \o "-" \o ToString(k - 1) \o "." \o "alertmanager" \o "." \o ns \o ".svc"]

makeStatefulSetSpec(ns, name, image, version, replicas) ==
    LET commands ==
            << "/bin/alertmanager",
               "-config.file=" \o "/etc/alertmanager/config/alertmanager.yaml",
               "-web.listen-address=:" \o ToString(9093),
               "-mesh.listen-address=:" \o ToString(6783),
               "-storage.path=" \o "/etc/alertmanager/data" >>
            \o meshPeers(ns, name, replicas)
    IN [ ServiceName |-> "alertmanager",
         Replicas |-> replicas,
         Template |->
           [ ObjectMeta |-> [Labels |-> [app |-> "alertmanager", alertmanager |-> name]],
             Spec |->
               [ TerminationGracePeriodSeconds |-> 0,
                 Containers |->
                   << [ Command |-> commands,
                        Args |-> <<>>,
                        Name |-> name,
                        Image |-> image,
                        Ports |-> << [Name |-> "web", ContainerPort |-> 9093, Protocol |-> "TCP"],
                                     [Name |-> "mesh", ContainerPort |-> 6783, Protocol |-> "TCP"] >>,
                        VolumeMounts |->
                          << [Name |-> "config-volume", ReadOnly |-> FALSE,
                              MountPath |-> "/etc/alertmanager/config", SubPath |-> ""],
                             [Name |-> name \o "-db", ReadOnly |-> FALSE,
                              MountPath |-> "/var/alertmanager/data", SubPath |-> "alertmanager-db"] >>,
                        Limits |-> <<>> ],
                      [ Command |-> <<>>,
                        Args |-> << "-webhook-url=http://localhost:9093/-/reload",
                                    "-volume-dir=/etc/alertmanager/config" >>,
                        Name |-> "config-reloader",
                        Image |-> "jimmidyson/configmap-reload",
                        Ports |-> <<>>,
                        VolumeMounts |->
                          << [Name |-> "config-volume", ReadOnly |-> TRUE,
                              MountPath |-> "/etc/alertmanager/config", SubPath |-> ""] >>,
                        Limits |-> [cpu |-> "5m", memory |-> "10Mi"] ] >>,
                 Volumes |->
                   << [Name |-> "config-volume", Source |-> "ConfigMap", ConfigMapName |-> name] >> ] ],
         VolumeClaimTemplates |-> <<>> ]

\* The annotations of the claim template: set only if len(vc.Class) > 0.
\* (variant that annotates whatever the class name is)
pvcAnnotationsAlways(vc) == [c \in {"volume.beta.kubernetes.io/storage-class"} |-> vc.Class]
pvcAnnotations(vc) ==
    IF Len(vc.Class) > 0
    THEN [c \in {"volume.beta.kubernetes.io/storage-class"} |-> vc.Class]
    ELSE <<>>

\* The statefulset built before the old one is looked at.
newStatefulSet(a) ==
    LET baseImage == IF a.Spec.BaseImage = "" THEN defaultBaseImage ELSE a.Spec.BaseImage
        version == IF a.Spec.Version = "" THEN defaultVersion ELSE a.Spec.Version
        replicas == clampReplicas(a.Spec.Replicas)
        image == baseImage \o ":" \o version
        base == [ ObjectMeta |-> [Name |-> a.Name, Annotations |-> <<>>],
                  Spec |-> makeStatefulSetSpec(a.Namespace, a.Name, image, version, replicas) ]
    IN IF a.Spec.Storage = <<>>
       THEN [base EXCEPT !.Spec.Template.Spec.Volumes =
                Append(@, [Name |-> a.Name \o "-db", Source |-> "EmptyDir", ConfigMapName |-> ""])]
       ELSE LET vc == a.Spec.Storage[1]
                pvc == [ ObjectMeta |-> [Name |-> a.Name \o "-db", Annotations |-> pvcAnnotations(vc)],
                         Spec |-> [ AccessModes |-> <<"ReadWriteOnce">>,
                                    Resources |-> vc.Resources,
                                    Selector |-> vc.Selector ] ]
            IN [base EXCEPT !.Spec.VolumeClaimTemplates = Append(@, pvc)]

\* The call makeStatefulSet(a, o): what it returns (ret) and what its two
\* pointer arguments point to when it has returned (am, old).
\* (variant that updates the old manifest in place and returns it)
makeStatefulSetReuseOld(a, o) ==
    IF o = <<>>
    THEN [ret |-> newStatefulSet(a), am |-> a, old |-> o]
    ELSE LET upd == [o[1] EXCEPT !.Spec = newStatefulSet(a).Spec]
         IN [ret |-> upd, am |-> a, old |-> <<upd>>]
makeStatefulSet(a, o) ==
    LET s == newStatefulSet(a)
    IN [ ret |-> IF o # <<>>
                 THEN [s EXCEPT !.ObjectMeta.Annotations = o[1].ObjectMeta.Annotations]
                 ELSE s,
         am |-> a,
         old |-> o ]

(***************************************************************************)
(* promcfg.go: sanitizeLabelName.                                          *)
(***************************************************************************)
\* The characters invalidLabelCharRE ([^a-zA-Z0-9_]) does not match.
ValidLabelChars ==
    { "a", "b", "c", "d", "e", "f", "g", "h", "i", "j", "k", "l", "m",
      "n", "o", "p", "q", "r", "s", "t", "u", "v", "w", "x", "y", "z",
      "A", "B", "C", "D", "E", "F", "G", "H", "I", "J", "K", "L", "M",
      "N", "O", "P", "Q", "R", "S", "T", "U", "V", "W", "X", "Y", "Z",
      "0", "1", "2", "3", "4", "5", "6", "7", "8", "9", "_" }

\* invalidLabelCharRE.ReplaceAllString(name, "_"), character by character.
RECURSIVE sanitizeLabelName(_)
sanitizeLabelName(name) ==
    IF Len(name) = 0 THEN ""
    ELSE (IF SubSeq(name, 1, 1) \in ValidLabelChars THEN SubSeq(name, 1, 1) ELSE "_")
         \o sanitizeLabelName(SubSeq(name, 2, Len(name)))

\* intstr.IntOrString.String(), as called on ep.TargetPort and am.Port: the
\* string value of a String-typed port, else the decimal form of the int value
\* (the zero value of the type is Int-typed with IntVal 0).
intstrString(port) ==
    IF port.Type = "String" THEN port.StrVal ELSE ToString(port.IntVal)

RECURSIVE Flatten(_)
Flatten(seqs) == IF Len(seqs) = 0 THEN <<>> ELSE Head(seqs) \o Flatten(Tail(seqs))

(***************************************************************************)
(* promcfg.go: generateServiceMonitorConfig, one operator per block of the *)
(* function, in the order in which the blocks append to relabelings.       *)
(***************************************************************************)
\* Exact label matches: for k, v := range m.Spec.Selector.MatchLabels. order
\* is the order in which the runtime ranges over the map on this call.
matchLabelRelabelings(mon, order) ==
    [ k \in 1..Len(order) |->
        [ action |-> "keep",
          source_labels |-> <<"__meta_kubernetes_service_label_" \o sanitizeLabelName(order[k])>>,
          regex |-> mon.Spec.Selector.MatchLabels[order[k]] ] ]

\* Set based label matching: one rule per expression with a known operator.
expressionRelabeling(exp) ==
    LET src == <<"__meta_kubernetes_service_label_" \o sanitizeLabelName(exp.Key)>>
    IN CASE exp.Operator = "In" ->
              <<[action |-> "keep", source_labels |-> src, regex |-> Join(exp.Values, "|")]>>
         [] exp.Operator = "NotIn" ->
              <<[action |-> "drop", source_labels |-> src, regex |-> Join(exp.Values, "|")]>>
         [] exp.Operator = "Exists" ->
              <<[action |-> "keep", source_labels |-> src, regex |-> ".+"]>>
         [] exp.Operator = "DoesNotExist" ->
              <<[action |-> "drop", source_labels |-> src, regex |-> ".+"]>>
         [] OTHER -> <<>>

matchExpressionRelabelings(mon) ==
    Flatten([k \in 1..Len(mon.Spec.Selector.MatchExpressions) |->
                expressionRelabeling(mon.Spec.Selector.MatchExpressions[k])])

\* Filter targets based on the namespace selection configuration.
\* (variant in which 'any' wins over the name list)
namespaceRelabelingsAnyFirst(mon) ==
    LET nsel == mon.Spec.NamespaceSelector
    IN IF nsel.Any THEN <<>>
       ELSE IF Len(nsel.MatchNames) > 0
       THEN <<[ action |-> "keep", source_labels |-> <<"__meta_kubernetes_namespace">>,
                regex |-> Join(nsel.MatchNames, "|") ]>>
       ELSE <<[ action |-> "keep", source_labels |-> <<"__meta_kubernetes_namespace">>,
                regex |-> mon.Namespace ]>>
namespaceRelabelings(mon) ==
    LET nsel == mon.Spec.NamespaceSelector
    IN IF ~nsel.Any /\ Len(nsel.MatchNames) = 0
       THEN <<[ action |-> "keep", source_labels |-> <<"__meta_kubernetes_namespace">>,
                regex |-> mon.Namespace ]>>
       ELSE IF Len(nsel.MatchNames) > 0
       THEN <<[ action |-> "keep", source_labels |-> <<"__meta_kubernetes_namespace">>,
                regex |-> Join(nsel.MatchNames, "|") ]>>
       ELSE <<>>

\* Filter targets based on correct port for the endpoint.
\* (variant in which the target port wins over the named port)
portRelabelingsTargetPortFirst(e) ==
    IF e.TargetPort.StrVal # ""
    THEN <<[ action |-> "keep", source_labels |-> <<"__meta_kubernetes_container_port_name">>,
             regex |-> intstrString(e.TargetPort) ]>>
    ELSE IF e.TargetPort.IntVal # 0
    THEN <<[ action |-> "keep", source_labels |-> <<"__meta_kubernetes_container_port_number">>,
             regex |-> intstrString(e.TargetPort) ]>>
    ELSE IF e.Port # ""
    THEN <<[ action |-> "keep", source_labels |-> <<"__meta_kubernetes_endpoint_port_name">>,
             regex |-> e.Port ]>>
    ELSE <<>>
portRelabelings(e) ==
    IF e.Port # ""
    THEN <<[ action |-> "keep", source_labels |-> <<"__meta_kubernetes_endpoint_port_name">>,
             regex |-> e.Port ]>>
    ELSE IF e.TargetPort.StrVal # ""
    THEN <<[ action |-> "keep", source_labels |-> <<"__meta_kubernetes_container_port_name">>,
             regex |-> intstrString(e.TargetPort) ]>>
    ELSE IF e.TargetPort.IntVal # 0
    THEN <<[ action |-> "keep", source_labels |-> <<"__meta_kubernetes_container_port_number">>,
             regex |-> intstrString(e.TargetPort) ]>>
    ELSE <<>>

\* Relabel namespace and pod and service labels into proper labels.
structuralRelabelings ==
    << [source_labels |-> <<"__meta_kubernetes_namespace">>, target_label |-> "namespace"],
       [action |-> "labelmap", regex |-> "__meta_kubernetes_service_label_(.+)",
        replacement |-> "svc_$1"],
       [action |-> "replace", target_label |-> "__meta_kubernetes_pod_label_pod_template_hash",
        replacement |-> ""],
       [action |-> "labelmap", regex |-> "__meta_kubernetes_pod_label_(.+)",
        replacement |-> "pod_$1"] >>

\* By default, generate a safe job name from the service name and scraped port.
jobRelabelings(e) ==
    IF e.Port # ""
    THEN <<[ source_labels |-> <<"__meta_kubernetes_service_name">>, target_label |-> "job",
             replacement |-> "${1}-" \o e.Port ]>>
    ELSE IF intstrString(e.TargetPort) # ""
    THEN <<[ source_labels |-> <<"__meta_kubernetes_service_name">>, target_label |-> "job",
             replacement |-> "${1}-" \o intstrString(e.TargetPort) ]>>
    ELSE <<>>

\* Generate a job name with a base label.
\* (variant without the target-port branch)
jobLabelRelabelingsNamedPortOnly(mon, e) ==
    IF mon.Spec.JobLabel # "" /\ e.Port # ""
    THEN <<[ source_labels |->
               <<"__meta_kubernetes_service_label_" \o sanitizeLabelName(mon.Spec.JobLabel)>>,
             target_label |-> "job", regex |-> "(.+)",
             replacement |-> "${1}-" \o e.Port ]>>
    ELSE <<>>
jobLabelRelabelings(mon, e) ==
    IF mon.Spec.JobLabel # ""
    THEN IF e.Port # ""
         THEN <<[ source_labels |->
                    <<"__meta_kubernetes_service_label_" \o sanitizeLabelName(mon.Spec.JobLabel)>>,
                  target_label |-> "job", regex |-> "(.+)",
                  replacement |-> "${1}-" \o e.Port ]>>
         ELSE IF intstrString(e.TargetPort) # ""
         THEN <<[ source_labels |->
                    <<"__meta_kubernetes_service_label_" \o sanitizeLabelName(mon.Spec.JobLabel)>>,
                  target_label |-> "job", regex |-> "(.+)",
                  replacement |-> "${1}-" \o intstrString(e.TargetPort) ]>>
         ELSE <<>>
    ELSE <<>>

\* fmt.Sprintf("%s/%s/%d", m.Namespace, m.Name, i)
\* (variant without the endpoint index)
jobNameWithoutIndex(mon, idx) == mon.Namespace \o "/" \o mon.Name
jobName(mon, idx) == mon.Namespace \o "/" \o mon.Name \o "/" \o ToString(idx)

\* The keys a scrape job has only when the endpoint sets them.
endpointOverrides(e) ==
    LET keys == (IF e.Interval # "" THEN {"scrape_interval"} ELSE {})
                \cup (IF e.Path # "" THEN {"metrics_path"} ELSE {})
                \cup (IF e.Scheme # "" THEN {"scheme"} ELSE {})
    IN [ k \in keys |->
           CASE k = "scrape_interval" -> e.Interval
             [] k = "metrics_path" -> e.Path
             [] k = "scheme" -> e.Scheme ]

generateServiceMonitorConfig(mon, e, idx, order) ==
    [ job_name |-> jobName(mon, idx),
      kubernetes_sd_configs |-> <<[role |-> "endpoints"]>>,
      relabel_configs |->
          matchLabelRelabelings(mon, order)
          \o matchExpressionRelabelings(mon)
          \o namespaceRelabelings(mon)
          \o portRelabelings(e)
          \o structuralRelabelings
          \o jobRelabelings(e)
          \o jobLabelRelabelings(mon, e) ]
    @@ endpointOverrides(e)

(***************************************************************************)
(* promcfg.go: generateAlertmanagerConfig and generateConfig.              *)
(***************************************************************************)
generateAlertmanagerConfig(a) ==
    LET scheme == IF a.Scheme = "" THEN "http" ELSE a.Scheme
        portRule ==
            IF a.Port.StrVal # ""
            THEN <<[ action |-> "keep",
                     source_labels |-> <<"__meta_kubernetes_endpoint_port_name">>,
                     regex |-> intstrString(a.Port) ]>>
            ELSE IF a.Port.IntVal # 0
            THEN <<[ action |-> "keep",
                     source_labels |-> <<"__meta_kubernetes_container_port_number">>,
                     regex |-> intstrString(a.Port) ]>>
            ELSE <<>>
    IN [ kubernetes_sd_configs |-> <<[role |-> "endpoints"]>>,
         scheme |-> scheme,
         relabel_configs |->
            << [ action |-> "keep", source_labels |-> <<"__meta_kubernetes_service_name">>,
                 regex |-> a.Name ],
               [ action |-> "keep", source_labels |-> <<"__meta_kubernetes_namespace">>,
                 regex |-> a.Namespace ] >> \o portRule ]

\* The scrape jobs of one monitor: for i, ep := range mon.Spec.Endpoints.
\* labelOrder[k] is the order of the range over MatchLabels in the k-th call.
monitorScrapeConfigs(mon, labelOrder) ==
    [ k \in 1..Len(mon.Spec.Endpoints) |->
        generateServiceMonitorConfig(mon, mon.Spec.Endpoints[k], k - 1, labelOrder[k]) ]

\* The document generateConfig marshals. yaml.Marshal writes the keys of a map
\* sorted and the elements of a slice in slice order, so maps are functions
\* and slices are sequences. monOrder is the order in which the runtime ranges
\* over mons on this call, labelOrders[key] the orders for that monitor's calls.
generateConfig(pr, ms, monOrder, labelOrders) ==
    [ global |-> [evaluation_interval |-> "30s", scrape_interval |-> "30s"],
      rule_files |-> <<"/etc/prometheus/rules/*.rules">>,
      scrape_configs |->
          Flatten([k \in 1..Len(monOrder) |->
                      monitorScrapeConfigs(ms[monOrder[k]], labelOrders[monOrder[k]])]),
      alerting |->
          [ alertmanagers |->
              [ k \in 1..Len(pr.Spec.Alerting.Alertmanagers) |->
                  generateAlertmanagerConfig(pr.Spec.Alerting.Alertmanagers[k]) ] ] ]

\* The orders the runtime may choose for the calls made for monitor mon.
LabelOrdersOf(mon) ==
    [1..Len(mon.Spec.Endpoints) -> Orders(DOMAIN mon.Spec.Selector.MatchLabels)]

(***************************************************************************)
(* Inputs of makeStatefulSet.                                              *)
(***************************************************************************)
Namespaces == {"default", "monitoring"}

StorageSpecs ==
    [ Class : {"", "fast"},
      Resources : {[Requests |-> [storage |-> "1Gi"]], [Requests |-> [storage |-> "5Gi"]]},
      Selector : {<<>>, <<[MatchLabels |-> [disk |-> "ssd"]]>>} ]

Alertmanagers ==
    [ Namespace : Namespaces,
      Name : {"main", "alt"},
      Spec : [ BaseImage : {"", "example.org/alertmanager"},
               Version : {"", "v0.6.0"},
               Replicas : (-1)..MaxReplicas,
               Storage : {<<>>} \cup {<<vc>> : vc \in StorageSpecs} ] ]

\* Annotation sets an earlier manifest may carry.
AnnotationSets ==
    { <<>>,
      [k \in {"owner"} |-> "ops"],
      [k \in {"owner", "revision"} |-> IF k = "owner" THEN "ops" ELSE "7"] }

\* Earlier manifests: built for another declaration, then annotated.
OldAlertmanagers ==
    { [ Namespace |-> "default", Name |-> "stale",
        Spec |-> [BaseImage |-> "", Version |-> "v0.4.0", Replicas |-> 2, Storage |-> <<>>] ],
      [ Namespace |-> "monitoring", Name |-> "main",
        Spec |-> [ BaseImage |-> "", Version |-> "", Replicas |-> 1,
                   Storage |-> << [ Class |-> "slow",
                                    Resources |-> [Requests |-> [storage |-> "1Gi"]],
                                    Selector |-> <<>> ] >> ] ] }

OldStatefulSets ==
    {<<>>} \cup
    { <<[newStatefulSet(a) EXCEPT !.ObjectMeta.Annotations = ann]>> :
        a \in OldAlertmanagers, ann \in AnnotationSets }

(***************************************************************************)
(* Values of the variables a specification does not use.                   *)
(***************************************************************************)
NoAlertmanager ==
    [ Namespace |-> "", Name |-> "",
      Spec |-> [BaseImage |-> "", Version |-> "", Replicas |-> 0, Storage |-> <<>>] ]
NoPrometheus == [Spec |-> [Alerting |-> [Alertmanagers |-> <<>>]]]
NoEndpoint ==
    [ Port |-> "", TargetPort |-> [Type |-> "Int", IntVal |-> 0, StrVal |-> ""],
      Path |-> "", Scheme |-> "", Interval |-> "" ]
NoMonitor ==
    [ Namespace |-> "", Name |-> "",
      Spec |-> [ JobLabel |-> "",
                 Selector |-> [MatchLabels |-> <<>>, MatchExpressions |-> <<>>],
                 NamespaceSelector |-> [Any |-> FALSE, MatchNames |-> <<>>],
                 Endpoints |-> <<>> ] ]

IdleManifest == am = NoAlertmanager /\ old = <<>> /\ statefulset = <<>>
IdleConfig == p = NoPrometheus /\ mons = <<>> /\ config = <<>>
IdleRelabel == m = NoMonitor /\ ep = NoEndpoint /\ i = 0 /\ job = <<>>

(***************************************************************************)
(* SpecManifest: makeStatefulSet applied to every declaration and every    *)
(* earlier manifest of the bounded sets.                                   *)
(***************************************************************************)
InitManifest ==
    /\ am \in Alertmanagers
    /\ old \in OldStatefulSets
    /\ statefulset = <<>>
    /\ IdleConfig
    /\ IdleRelabel

MakeStatefulSet ==
    /\ LET r == makeStatefulSet(am, old)
       IN /\ statefulset' = <<r.ret>>
          /\ am' = r.am
          /\ old' = r.old
    /\ UNCHANGED <<cfgVars, jobVars>>

NextManifest == MakeStatefulSet

SpecManifest == InitManifest /\ [][NextManifest]_vars

(***************************************************************************)
(* Inputs of generateServiceMonitorConfig and generateConfig.              *)
(***************************************************************************)
FromInt(n) == [Type |-> "Int", IntVal |-> n, StrVal |-> ""]
FromString(str) == [Type |-> "String", IntVal |-> 0, StrVal |-> str]

\* The zero value (no target port), a numeric port, a named container port
\* and the empty string given as a String-typed port.
TargetPorts == {FromInt(0), FromInt(9090), FromString("metrics"), FromString("")}

Endpoints ==
    { [ Port |-> port, TargetPort |-> tp,
        Path |-> o.Path, Scheme |-> o.Scheme, Interval |-> o.Interval ] :
        port \in {"", "web"}, tp \in TargetPorts,
        o \in { [Path |-> "", Scheme |-> "", Interval |-> ""],
                [Path |-> "/federate", Scheme |-> "https", Interval |-> "15s"] } }

LabelKeys == {"team", "k8s-app", "app.kubernetes.io/name"}

\* Selector.MatchLabels: at most MaxLabels of the keys, each with value x.
MatchLabelMaps ==
    {[k \in K |-> "x"] : K \in {K \in SUBSET LabelKeys : Cardinality(K) <= MaxLabels}}

Expression(op) ==
    [ Key |-> "tier", Operator |-> op,
      Values |-> IF op \in {"In", "NotIn"} THEN <<"a", "b">> ELSE <<>> ]

\* Selector.MatchExpressions: the four operators and one the code does not know.
MatchExpressionLists ==
    Windows(<< Expression("In"), Expression("NotIn"), Expression("Exists"),
               Expression("DoesNotExist"), Expression("Matches") >>, MaxExprs)

NamespaceSelectors ==
    [Any : BOOLEAN, MatchNames : Windows(<<"ns1", "ns2", "ns1">>, MaxMatchNames)]

\* The monitors handed to generateServiceMonitorConfig together with the
\* endpoint e at index idx.
RelabelMonitor(ns, jl, labels, exprs, nsel, e, idx) ==
    [ Namespace |-> ns, Name |-> "frontend",
      Spec |-> [ JobLabel |-> jl,
                 Selector |-> [MatchLabels |-> labels, MatchExpressions |-> exprs],
                 NamespaceSelector |-> nsel,
                 Endpoints |-> [k \in 1..(idx + 1) |-> e] ] ]

\* The endpoints of the monitors handed to generateConfig: the first n of
\* a named port, a numeric target port, a named container port, ...
EndpointCycle(k) ==
    [ Port |-> IF k % 3 = 1 THEN "web" ELSE "",
      TargetPort |-> IF k % 3 = 2 THEN FromInt(9090)
                     ELSE IF k % 3 = 0 THEN FromString("metrics") ELSE FromInt(0),
      Path |-> IF k % 2 = 0 THEN "/federate" ELSE "",
      Scheme |-> "", Interval |-> "" ]

\* Monitors of every identity and every number of endpoints, with one
\* exact-match label.
ConfigMonitors ==
    { [ Namespace |-> ns, Name |-> name,
        Spec |-> [ JobLabel |-> "",
                   Selector |-> [MatchLabels |-> labels, MatchExpressions |-> <<>>],
                   NamespaceSelector |-> [Any |-> FALSE, MatchNames |-> <<>>],
                   Endpoints |-> [k \in 1..n |-> EndpointCycle(k)] ] ] :
        ns \in Namespaces, name \in {"frontend", "backend"},
        labels \in {[k \in {"team"} |-> "x"]}, n \in 0..MaxEndpoints }

\* Monitors with one endpoint and any of the exact-match selectors.
SelectorMonitors ==
    { [ Namespace |-> "default", Name |-> "frontend",
        Spec |-> [ JobLabel |-> "",
                   Selector |-> [MatchLabels |-> labels, MatchExpressions |-> <<>>],
                   NamespaceSelector |-> [Any |-> FALSE, MatchNames |-> <<>>],
                   Endpoints |-> <<EndpointCycle(1)>> ] ] :
        labels \in MatchLabelMaps }

\* The keys of the map mons: k1 .. kn.
MonKeys(n) == {"k" \o ToString(k) : k \in 1..n}

Prometheuses ==
    { [Spec |-> [Alerting |-> [Alertmanagers |-> ams]]] :
        ams \in { <<>>,
                  << [Namespace |-> "monitoring", Name |-> "main", Port |-> FromString("web"),
                      Scheme |-> ""],
                     [Namespace |-> "default", Name |-> "alt", Port |-> FromInt(9093),
                      Scheme |-> "https"] >> } }

(***************************************************************************)
(* SpecRelabel: generateServiceMonitorConfig applied to one monitor and    *)
(* one of its endpoints.                                                   *)
(***************************************************************************)
InitRelabel ==
    /\ \E ns \in Namespaces, jl \in {"", "k8s-app"}, labels \in MatchLabelMaps,
          exprs \in MatchExpressionLists, nsel \in NamespaceSelectors,
          e \in Endpoints, idx \in {0, MaxEndpoints - 1} :
            /\ m = RelabelMonitor(ns, jl, labels, exprs, nsel, e, idx)
            /\ ep = e
            /\ i = idx
    /\ job = <<>>
    /\ IdleManifest
    /\ IdleConfig

GenerateServiceMonitorConfig ==
    /\ \E order \in Orders(DOMAIN m.Spec.Selector.MatchLabels) :
          job' = <<generateServiceMonitorConfig(m, ep, i, order)>>
    /\ UNCHANGED <<m, ep, i, amVars, cfgVars>>

NextRelabel == GenerateServiceMonitorConfig

SpecRelabel == InitRelabel /\ [][NextRelabel]_vars

(***************************************************************************)
(* Spec: generateConfig applied, again and again, to one Prometheus and    *)
(* one map of monitors.                                                    *)
(***************************************************************************)
Init ==
    /\ p \in Prometheuses
    /\ \/ \E n \in 0..MaxMons : mons \in [MonKeys(n) -> ConfigMonitors]
       \/ mons \in [MonKeys(1) -> SelectorMonitors]
    /\ config = <<>>
    /\ IdleManifest
    /\ IdleRelabel

GenerateConfig ==
    /\ \E monOrder \in Orders(DOMAIN mons) :
       \E labelOrders \in
            { f \in [DOMAIN mons -> UNION {LabelOrdersOf(mons[k]) : k \in DOMAIN mons}] :
                \A k \in DOMAIN mons : f[k] \in LabelOrdersOf(mons[k]) } :
          config' = <<generateConfig(p, mons, monOrder, labelOrders)>>
    /\ UNCHANGED <<p, mons, amVars, jobVars>>

Next == GenerateConfig

Spec == Init /\ [][Next]_vars

(***************************************************************************)
(* Properties of makeStatefulSet (checked under SpecManifest).             *)
(***************************************************************************)
\* The command line of the alerting-engine container of manifest s.
EngineCommand(s) == s.Spec.Template.Spec.Containers[1].Command
EngineMounts(s) == s.Spec.Template.Spec.Containers[1].VolumeMounts

IsPeerArg(c) == HasPrefix(c, "-mesh.peer=")
IsEmptyDir(v) == v.Source = "EmptyDir"

\* C4: for every declared replica value r the manifest's replica count is
\* n = max(1, r) and the engine's command line holds exactly n -mesh.peer
\* arguments, <name>-<ordinal>.alertmanager.<namespace>.svc for the ordinals
\* 0..n-1 in ascending order.
C4_ReplicasAndPeers ==
    statefulset # <<>> =>
        LET s == statefulset[1]
            n == IF am.Spec.Replicas > 1 THEN am.Spec.Replicas ELSE 1
            peers == SelectSeq(EngineCommand(s), IsPeerArg)
        IN /\ s.Spec.Replicas = n
           /\ Len(peers) = n
           /\ \A k \in 1..n :
                peers[k] = "-mesh.peer=" \o am.Name \o "-" \o ToString(k - 1)
                           \o ".alertmanager." \o am.Namespace \o ".svc"

\* C4 witness: a declaration of zero replicas was compiled to one replica.
C4_Witness ==
    /\ statefulset # <<>>
    /\ am.Spec.Replicas = 0
    /\ statefulset[1].Spec.Replicas = 1
    /\ Len(SelectSeq(EngineCommand(statefulset[1]), IsPeerArg)) = 1

\* C5: the data volume <name>-db comes in exactly one of two forms: without a
\* storage spec one empty-directory volume and no claim template; with one, no
\* empty-directory volume and one read-write-once claim template with the
\* caller's resources and selector, annotated with the storage class (its only
\* annotation) if and only if the class name is non-empty.
C5_DataVolumeForm ==
    statefulset # <<>> =>
        LET s == statefulset[1]
            empties == SelectSeq(s.Spec.Template.Spec.Volumes, IsEmptyDir)
            pvcs == s.Spec.VolumeClaimTemplates
        IN IF am.Spec.Storage = <<>>
           THEN /\ Len(empties) = 1
                /\ empties[1].Name = am.Name \o "-db"
                /\ Len(pvcs) = 0
           ELSE LET vc == am.Spec.Storage[1]
                    ann == pvcs[1].ObjectMeta.Annotations
                IN /\ Len(empties) = 0
                   /\ Len(pvcs) = 1
                   /\ pvcs[1].ObjectMeta.Name = am.Name \o "-db"
                   /\ pvcs[1].Spec.AccessModes = <<"ReadWriteOnce">>
                   /\ pvcs[1].Spec.Resources = vc.Resources
                   /\ pvcs[1].Spec.Selector = vc.Selector
                   /\ IF vc.Class # ""
                      THEN /\ DOMAIN ann = {"volume.beta.kubernetes.io/storage-class"}
                           /\ ann["volume.beta.kubernetes.io/storage-class"] = vc.Class
                      ELSE DOMAIN ann = {}

\* C5 witness: a storage spec with a class was compiled to an annotated claim.
C5_Witness ==
    /\ statefulset # <<>>
    /\ am.Spec.Storage # <<>>
    /\ am.Spec.Storage[1].Class = "fast"
    /\ Len(statefulset[1].Spec.VolumeClaimTemplates) = 1

\* What C6 says of the state in which makeStatefulSet has returned.
C6_Result ==
    statefulset # <<>> =>
        LET fresh == makeStatefulSet(am, <<>>).ret
            carried == IF old = <<>> THEN <<>> ELSE old[1].ObjectMeta.Annotations
        IN /\ DOMAIN fresh.ObjectMeta.Annotations = {}
           /\ statefulset[1].ObjectMeta.Annotations = carried
           /\ statefulset[1] = [fresh EXCEPT !.ObjectMeta.Annotations = carried]

\* C6: the previous manifest reaches the result only through its annotations
\* (the result has old's annotation set and is otherwise the manifest built
\* with no previous one, whose annotation set is empty), and the call changes
\* neither the declaration nor the previous manifest.
C6_OnlyAnnotationsCarried ==
    /\ []C6_Result
    /\ [][am' = am /\ old' = old]_vars

\* C6 witness: a previous manifest with annotations, built for another
\* declaration, was handed in and the call has returned.
C6_Witness ==
    /\ statefulset # <<>>
    /\ old # <<>>
    /\ DOMAIN old[1].ObjectMeta.Annotations = {"owner", "revision"}
    /\ old[1].ObjectMeta.Name # statefulset[1].ObjectMeta.Name
    /\ old[1].Spec # statefulset[1].Spec

\* The value of the command-line argument that starts with flag.
ArgValue(command, flag) ==
    LET k == CHOOSE k \in 1..Len(command) : HasPrefix(command[k], flag)
    IN TrimPrefix(command[k], flag)

\* The mount path of the volume called name among mounts.
MountPathOf(mounts, name) ==
    LET k == CHOOSE k \in 1..Len(mounts) : mounts[k].Name = name
    IN mounts[k].MountPath

PathUnder(path, dir) == path = dir \/ HasPrefix(path, dir \o "/")

\* C10: every file path on the engine's command line lies under the mount path
\* of a volume mounted in that container: -config.file under config-volume and
\* -storage.path under the <name>-db data volume.
C10_PathsUnderMounts ==
    statefulset # <<>> =>
        LET s == statefulset[1]
        IN /\ PathUnder(ArgValue(EngineCommand(s), "-config.file="),
                        MountPathOf(EngineMounts(s), "config-volume"))
           /\ PathUnder(ArgValue(EngineCommand(s), "-storage.path="),
                        MountPathOf(EngineMounts(s), am.Name \o "-db"))

(***************************************************************************)
(* Properties of generateConfig (checked under Spec).                      *)
(***************************************************************************)
\* C1: two calls of generateConfig on the same input produce the identical
\* document: the same scrape jobs in the same order and, inside each job, the
\* same relabel rules in the same order.
C1_Deterministic ==
    [][(config # <<>> /\ config' # <<>>) => config' = config]_vars

\* The (key, endpoint index) pairs of the map mons.
MonitorEndpointPairs ==
    {<<k, idx>> \in (DOMAIN mons) \X (0..MaxEndpoints) : idx < Len(mons[k].Spec.Endpoints)}

ExpectedJobName(pair) ==
    mons[pair[1]].Namespace \o "/" \o mons[pair[1]].Name \o "/" \o ToString(pair[2])

DistinctIdentities ==
    \A k1, k2 \in DOMAIN mons :
        k1 # k2 => <<mons[k1].Namespace, mons[k1].Name>> # <<mons[k2].Namespace, mons[k2].Name>>

\* C8: generateConfig builds exactly one scrape job per (monitor, endpoint)
\* pair, named <namespace>/<name>/<endpointIndex>, and the job names of one
\* document are pairwise distinct whenever the monitors have pairwise distinct
\* (namespace, name) identities.
C8_OneJobPerEndpoint ==
    config # <<>> =>
        LET jobs == config[1].scrape_configs
        IN /\ Len(jobs) = Cardinality(MonitorEndpointPairs)
           /\ \A pair \in MonitorEndpointPairs :
                Cardinality({k \in 1..Len(jobs) : jobs[k].job_name = ExpectedJobName(pair)})
                = Cardinality({q \in MonitorEndpointPairs : ExpectedJobName(q) = ExpectedJobName(pair)})
           /\ DistinctIdentities =>
                \A a, b \in 1..Len(jobs) : a # b => jobs[a].job_name # jobs[b].job_name

\* C8 witness: two monitors of distinct identities with two endpoints each were
\* compiled to four jobs.
C8_Witness ==
    /\ config # <<>>
    /\ Cardinality(DOMAIN mons) = 2
    /\ DistinctIdentities
    /\ \A k \in DOMAIN mons : Len(mons[k].Spec.Endpoints) = 2
    /\ Len(config[1].scrape_configs) = 4

(***************************************************************************)
(* Properties of generateServiceMonitorConfig (checked under SpecRelabel). *)
(***************************************************************************)
Has(r, field) == field \in DOMAIN r

\* The default job-rewrite rule: service name into job.
IsDefaultJobRule(r) ==
    /\ Has(r, "target_label") /\ r.target_label = "job"
    /\ Has(r, "source_labels") /\ r.source_labels = <<"__meta_kubernetes_service_name">>

\* A keep rule on one of the three discovered port labels.
IsPortFilter(r) ==
    /\ Has(r, "action") /\ r.action = "keep"
    /\ Has(r, "source_labels")
    /\ r.source_labels \in { <<"__meta_kubernetes_endpoint_port_name">>,
                             <<"__meta_kubernetes_container_port_name">>,
                             <<"__meta_kubernetes_container_port_number">> }

IsNamespaceKeep(r) ==
    /\ Has(r, "action") /\ r.action = "keep"
    /\ Has(r, "source_labels") /\ r.source_labels = <<"__meta_kubernetes_namespace">>

\* A rule that sets job from a discovered service label.
IsLabelJobRule(r) ==
    /\ Has(r, "target_label") /\ r.target_label = "job"
    /\ Has(r, "source_labels") /\ Len(r.source_labels) = 1
    /\ HasPrefix(r.source_labels[1], "__meta_kubernetes_service_label_")

\* C2: the default job-rewrite rule is emitted only when the endpoint has a
\* non-empty named port or a non-empty string-form target port: an endpoint
\* with no port of any form gets no port filter and no job-rewrite rule, and
\* an endpoint whose only port is a nonzero numeric target port gets the
\* container-port-number filter but no job-rewrite rule.
C2_JobRuleOnlyForNamedOrStringPort ==
    job # <<>> =>
        LET rules == job[1].relabel_configs
            jobRules == SelectSeq(rules, IsDefaultJobRule)
            filters == SelectSeq(rules, IsPortFilter)
        IN /\ Len(jobRules) > 0 => (ep.Port # "" \/ ep.TargetPort.StrVal # "")
           /\ (ep.Port = "" /\ ep.TargetPort.StrVal = "" /\ ep.TargetPort.IntVal = 0)
                => (Len(filters) = 0 /\ Len(jobRules) = 0)
           /\ (ep.Port = "" /\ ep.TargetPort.StrVal = "" /\ ep.TargetPort.IntVal # 0)
                => /\ Len(filters) = 1
                   /\ filters[1].source_labels = <<"__meta_kubernetes_container_port_number">>
                   /\ Len(jobRules) = 0

\* The case of C3: selector {team: "x"}, no set-based expressions, default
\* namespace scope, no JobLabel, named port "web"; the call has returned.
C3_Case ==
    /\ job # <<>>
    /\ DOMAIN m.Spec.Selector.MatchLabels = {"team"}
    /\ m.Spec.Selector.MatchLabels["team"] = "x"
    /\ m.Spec.Selector.MatchExpressions = <<>>
    /\ m.Spec.NamespaceSelector = [Any |-> FALSE, MatchNames |-> <<>>]
    /\ m.Spec.JobLabel = ""
    /\ ep.Port = "web"

\* The rules C3 lists, in the order in which it lists them.
C3_Listed ==
    << [ action |-> "keep", source_labels |-> <<"__meta_kubernetes_service_label_team">>,
         regex |-> "x" ],
       [ action |-> "keep", source_labels |-> <<"__meta_kubernetes_namespace">>,
         regex |-> m.Namespace ],
       [ action |-> "keep", source_labels |-> <<"__meta_kubernetes_endpoint_port_name">>,
         regex |-> "web" ],
       [ source_labels |-> <<"__meta_kubernetes_namespace">>, target_label |-> "namespace" ],
       [ action |-> "labelmap", regex |-> "__meta_kubernetes_service_label_(.+)",
         replacement |-> "svc_$1" ],
       [ action |-> "replace", target_label |-> "__meta_kubernetes_pod_label_pod_template_hash",
         replacement |-> "" ],
       [ action |-> "labelmap", regex |-> "__meta_kubernetes_pod_label_(.+)",
         replacement |-> "pod_$1" ],
       [ source_labels |-> <<"__meta_kubernetes_service_name">>, target_label |-> "job",
         replacement |-> "${1}-web" ] >>

\* The rules of C3_Listed occur in rules in the listed order.
RECURSIVE InOrder(_, _)
InOrder(listed, rules) ==
    IF Len(listed) = 0 THEN TRUE
    ELSE IF Len(rules) = 0 THEN FALSE
    ELSE IF Head(listed) = Head(rules) THEN InOrder(Tail(listed), Tail(rules))
    ELSE InOrder(listed, Tail(rules))

\* C3 as stated: in that case the builder emits the listed rules in the listed
\* order and the total number of rules emitted is exactly 7.
C3_SevenRules ==
    C3_Case =>
        /\ InOrder(C3_Listed, job[1].relabel_configs)
        /\ Len(job[1].relabel_configs) = 7

\* C3 as amended: in that case the builder emits exactly the listed rules in
\* the listed order (a keep rule on the service label team, a keep rule on the
\* namespace, a keep rule on the endpoint port name, the four structural rules,
\* the job-rewrite rule with replacement ${1}-web), which are 8 rules.
C3_EightRules ==
    C3_Case =>
        /\ job[1].relabel_configs = C3_Listed
        /\ Len(job[1].relabel_configs) = 8

C3_Witness == C3_Case /\ m.Namespace = "monitoring"

\* C7: at most one keep rule on the discovered namespace is emitted, chosen by
\* fixed precedence: a non-empty name list (whether or not 'any' is set) gives
\* the names joined by '|' in list order; else 'any' gives no rule; else the
\* regex is the monitor's own namespace.
C7_NamespacePrecedence ==
    job # <<>> =>
        LET nsRules == SelectSeq(job[1].relabel_configs, IsNamespaceKeep)
            nsel == m.Spec.NamespaceSelector
        IN /\ Len(nsRules) <= 1
           /\ IF Len(nsel.MatchNames) > 0
              THEN /\ Len(nsRules) = 1
                   /\ nsRules[1].regex = Join(nsel.MatchNames, "|")
                   /\ nsel.MatchNames = <<"ns1", "ns2">> => nsRules[1].regex = "ns1|ns2"
                   /\ nsel.MatchNames = <<"ns2", "ns1">> => nsRules[1].regex = "ns2|ns1"
              ELSE IF nsel.Any
              THEN Len(nsRules) = 0
              ELSE /\ Len(nsRules) = 1
                   /\ nsRules[1].regex = m.Namespace

\* C7 witness: both 'any' and the names ns1, ns2 were set and one rule with the
\* joined names was emitted.
C7_Witness ==
    /\ job # <<>>
    /\ m.Spec.NamespaceSelector = [Any |-> TRUE, MatchNames |-> <<"ns1", "ns2">>]
    /\ \E k \in 1..Len(job[1].relabel_configs) :
          /\ IsNamespaceKeep(job[1].relabel_configs[k])
          /\ job[1].relabel_configs[k].regex = "ns1|ns2"

\* C9: the label-derived job rule (source the sanitized JobLabel service
\* label, regex (.+), target label job) is emitted if and only if JobLabel is
\* non-empty and the default job-rewrite rule is emitted for the same
\* endpoint; it is then the last rule, directly follows the default
\* job-rewrite rule and carries the same replacement. With an empty JobLabel
\* no rule sets job from a service label.
C9_JobLabelRule ==
    job # <<>> =>
        LET rules == job[1].relabel_configs
            n == Len(rules)
            labelRules == SelectSeq(rules, IsLabelJobRule)
            defaultRules == SelectSeq(rules, IsDefaultJobRule)
        IN /\ Len(labelRules) <= 1
           /\ Len(labelRules) = 1 <=> (m.Spec.JobLabel # "" /\ Len(defaultRules) > 0)
           /\ Len(labelRules) = 1 =>
                /\ IsLabelJobRule(rules[n])
                /\ rules[n].source_labels =
                     <<"__meta_kubernetes_service_label_" \o sanitizeLabelName(m.Spec.JobLabel)>>
                /\ rules[n].regex = "(.+)"
                /\ IsDefaultJobRule(rules[n - 1])
                /\ rules[n].replacement = rules[n - 1].replacement
           /\ m.Spec.JobLabel = "" => Len(labelRules) = 0

\* C9 witness: JobLabel k8s-app and the string-form target port metrics gave a
\* last rule that reads the sanitized label and ends the job name in -metrics.
C9_Witness ==
    /\ job # <<>>
    /\ m.Spec.JobLabel = "k8s-app"
    /\ ep.Port = ""
    /\ ep.TargetPort = FromString("metrics")
    /\ LET rules == job[1].relabel_configs
       IN /\ rules[Len(rules)].source_labels = <<"__meta_kubernetes_service_label_k8s_app">>
          /\ rules[Len(rules)].replacement = "${1}-metrics"
          /\ IsDefaultJobRule(rules[Len(rules) - 1])

====
